---- MODULE Spec2Model ----
(***************************************************************************)
(* Model of the trace visualiser: TraceParser (js/trace-parser.js) turns a *)
(* trace document into events, nodes and edges; GraphRenderer              *)
(* (js/graph-renderer.js) groups the nodes and lays the graph out; the     *)
(* application script (js/app.js) reads the selected files, renders each   *)
(* parsed trace from a delayed timer and handles the layout toggle.        *)
(*                                                                         *)
(* Identifiers are strings in the program.  Here an identifier is the      *)
(* sequence of its hyphen-separated tokens: a token >= 0 is a decimal      *)
(* numeral, a token < 0 is one of the words below.  "42-1" is <<42, 1>>,   *)
(* "event-0" is <<EVENT, 0>>, "7-group" is <<7, GROUP>>.  Appending "-k"   *)
(* to a string is appending the token k.                                   *)
(*                                                                         *)
(* Positions are held in units of 1/Scale so that the layout's divisions   *)
(* stay exact.                                                             *)
(***************************************************************************)
EXTENDS Integers, Sequences, FiniteSets, TLC

VARIABLES
    xmlDoc,             \* the trace document handed to parseXmlContent
    viewport,           \* clientWidth and clientHeight of the graph container
    traceData,          \* TraceParser.traceData
    data,               \* GraphRenderer.data
    usingSankeyLayout,  \* the layout mode the application tracks
    useSankeyLayout,    \* GraphRenderer.useSankeyLayout
    sankeyAvailable,    \* typeof d3.sankey === 'function'
    layouts,            \* history: the layout runs on the rendered graph, oldest first
    clicks,             \* history: the number of user interactions so far
    selected,           \* history: the documents of the files selected, in order
    reading,            \* the selections whose file is still being read or unzipped
    timers,             \* the pending delayed renders, in the order they were set
    drag                \* the drag gesture: its phase and the dragged node datum

vars == <<xmlDoc, viewport, traceData, data, usingSankeyLayout, useSankeyLayout,
          sankeyAvailable, layouts, clicks, selected, reading, timers, drag>>

----------------------------------------------------------------------------
(* Bounds *)
MaxParseElems == 3
MaxBuildElems == 2
MaxGroupElems == 4
MaxLayoutElems == 3
MaxClicks == 1
MaxStructureElems == 2
MaxScenarioElems == 2
MaxDedupElems == 4
MaxContentElems == 2
MaxPayloadLen == 2
MaxAnnotateElems == 2
MaxCollisionElems == 3
MaxOrphanElems == 3
MaxParentElems == 3
MaxSelections == 2
MaxDrags == 1

----------------------------------------------------------------------------
(* Identifier tokens and strings *)
EVENT == 0 - 1
GROUP == 0 - 2
REQUEST == 0 - 3
ROUTE == 0 - 4
ERROR == 0 - 5

RequestId == <<REQUEST>>
RouteId == <<ROUTE>>
NoAttr == <<>>

RECURSIVE Digits(_)
Digits(n) == IF n < 10 THEN <<48 + n>> ELSE Digits(n \div 10) \o <<48 + (n % 10)>>

WordChars(w) ==
    CASE w = EVENT -> <<101, 118, 101, 110, 116>>
      [] w = GROUP -> <<103, 114, 111, 117, 112>>
      [] w = REQUEST -> <<114, 101, 113, 117, 101, 115, 116>>
      [] w = ROUTE -> <<114, 111, 117, 116, 101>>
      [] w = ERROR -> <<101, 114, 114, 111, 114>>

TokenChars(t) == IF t >= 0 THEN Digits(t) ELSE WordChars(t)

RECURSIVE Chars(_)
Chars(id) ==
    IF Len(id) = 0 THEN <<>>
    ELSE IF Len(id) = 1 THEN TokenChars(id[1])
    ELSE TokenChars(id[1]) \o <<45>> \o Chars(Tail(id))

StartsWith(s, p) == Len(p) <= Len(s) /\ SubSeq(s, 1, Len(p)) = p

Includes(s, p) == \E i \in 0..(Len(s) - Len(p)) : SubSeq(s, i + 1, i + Len(p)) = p

RECURSIVE LexLess(_, _)
LexLess(s, t) ==
    IF Len(t) = 0 THEN FALSE
    ELSE IF Len(s) = 0 THEN TRUE
    ELSE IF s[1] # t[1] THEN s[1] < t[1]
    ELSE LexLess(Tail(s), Tail(t))

LocaleCompare(a, b) ==
    IF Chars(a) = Chars(b) THEN 0 ELSE IF LexLess(Chars(a), Chars(b)) THEN 0 - 1 ELSE 1

\* /^\d+(?:-\d+)?$/
IsNumericId(id) == Len(id) \in {1, 2} /\ \A i \in 1..Len(id) : id[i] >= 0

\* /^(\d+)(?:-\d+)?(?:-group)?$/
IsBaseOrGroupId(id) ==
    \/ IsNumericId(id)
    \/ Len(id) \in {2, 3} /\ id[Len(id)] = GROUP /\ IsNumericId(SubSeq(id, 1, Len(id) - 1))

GroupIdOf(base) == <<base, GROUP>>

----------------------------------------------------------------------------
(* Sequence helpers *)
RECURSIVE SelectSeqBy(_, _, _)
SelectSeqBy(s, key, k) ==
    IF Len(s) = 0 THEN <<>>
    ELSE IF s[1][key] = k THEN <<s[1]>> \o SelectSeqBy(Tail(s), key, k)
    ELSE SelectSeqBy(Tail(s), key, k)

Range(s) == {s[i] : i \in 1..Len(s)}

MaxOf(S) == CHOOSE m \in S : \A k \in S : k <= m

RECURSIVE StableSortFrom(_, _, _)
StableSortFrom(s, t, maxT) ==
    IF t > maxT THEN <<>>
    ELSE SelectSeqBy(s, "time", t) \o StableSortFrom(s, t + 1, maxT)

\* Array.prototype.sort by parseInt(time) || 0: stable, ascending
SortByTime(s) ==
    IF Len(s) = 0 THEN <<>> ELSE StableSortFrom(s, 0, MaxOf({s[i].time : i \in 1..Len(s)}))

----------------------------------------------------------------------------
(* TraceParser.extractEvents *)

EventTags == {"propagation-event", "method-event", "tag-event"}

\* the collection without the tag-event elements
CollectEventsWithoutTagEvents(elems) ==
    SortByTime(SelectSeqBy(elems, "tag", "propagation-event")
               \o SelectSeqBy(elems, "tag", "method-event"))

\* [...propagationEvents, ...methodEvents, ...tagEvents].sort(by time)
CollectEvents(elems) ==
    SortByTime(SelectSeqBy(elems, "tag", "propagation-event")
               \o SelectSeqBy(elems, "tag", "method-event")
               \o SelectSeqBy(elems, "tag", "tag-event"))

\* event.getAttribute("objectId") || `event-${i}`   (i is 0-based)
AttrOrSynth(attr, i) == IF attr = NoAttr THEN <<EVENT, i - 1>> ELSE attr

\* objectIdPositions after the first pass: id -> positions in scan order
PositionsOf(attrs, id) ==
    LET P[i \in 0..Len(attrs)] ==
            IF i = 0 THEN <<>>
            ELSE IF AttrOrSynth(attrs[i], i) = id THEN Append(P[i - 1], i) ELSE P[i - 1]
    IN P[Len(attrs)]

FirstPos(attrs, id) == PositionsOf(attrs, id)[1]

\* Object.keys order: canonical integer keys ascending, then the other keys
\* in insertion order
KeyBefore(attrs, a, b) ==
    LET aInt == Len(a) = 1 /\ a[1] >= 0
        bInt == Len(b) = 1 /\ b[1] >= 0
    IN IF aInt /\ bInt THEN a[1] < b[1]
       ELSE IF aInt # bInt THEN aInt
       ELSE FirstPos(attrs, a) < FirstPos(attrs, b)

RECURSIVE OrderKeys(_, _)
OrderKeys(attrs, S) ==
    IF S = {} THEN <<>>
    ELSE LET k == CHOOSE a \in S : \A b \in S \ {a} : KeyBefore(attrs, a, b)
         IN <<k>> \o OrderKeys(attrs, S \ {k})

DuplicateIds(attrs) ==
    LET keys == {AttrOrSynth(attrs[i], i) : i \in 1..Len(attrs)}
    IN OrderKeys(attrs, {k \in keys : Len(PositionsOf(attrs, k)) > 1})

\* the rename loop for one duplicate id: positions[1..] get `${id}-${i}`, and
\* objectIdPositions[newId] is overwritten with [pos]
RECURSIVE RenameFrom(_, _, _, _)
RenameFrom(st, dupId, positions, i) ==
    IF i > Len(positions) THEN st
    ELSE LET pos == positions[i]
             newId == Append(dupId, i - 1)
         IN RenameFrom([attrs |-> [st.attrs EXCEPT ![pos] = newId],
                        positions |-> (newId :> <<pos>>) @@ st.positions],
                       dupId, positions, i + 1)

RECURSIVE FixDuplicates(_, _)
FixDuplicates(st, dups) ==
    IF Len(dups) = 0 THEN st
    ELSE FixDuplicates(RenameFrom(st, dups[1], st.positions[dups[1]], 2), Tail(dups))

\* objectId attributes of allEvents after the dedup pass
DedupObjectIds(attrs) ==
    LET keys == {AttrOrSynth(attrs[i], i) : i \in 1..Len(attrs)}
        st0 == [attrs |-> attrs, positions |-> [k \in keys |-> PositionsOf(attrs, k)]]
    IN FixDuplicates(st0, DuplicateIds(attrs)).attrs

----------------------------------------------------------------------------
(* Content fields: the text of an object, return or arg element and what is *)
(* decoded from it.  A text is the sequence of its character codes.          *)

\* null; no text contains the code -1
Null == <<0 - 1>>

\* querySelector found no such element
NoElement == [present |-> FALSE, text |-> <<>>]

Content(text) == [present |-> TRUE, text |-> text]

\* "Unable to decode content"
UnableToDecode ==
    <<85, 110, 97, 98, 108, 101, 32, 116, 111, 32, 100, 101, 99, 111, 100, 101, 32,
      99, 111, 110, 116, 101, 110, 116>>

\* the value of a character in the Base64 alphabet, -1 outside it
Base64Value(c) ==
    IF 65 <= c /\ c <= 90 THEN c - 65
    ELSE IF 97 <= c /\ c <= 122 THEN c - 71
    ELSE IF 48 <= c /\ c <= 57 THEN c + 4
    ELSE IF c = 43 THEN 62
    ELSE IF c = 47 THEN 63
    ELSE 0 - 1

IsAsciiWhitespace(c) == c \in {9, 10, 12, 13, 32}

\* atob, steps 1 and 2: whitespace removed, then one or two trailing "=" of
\* a text whose length is a multiple of 4
Base64Data(s) ==
    LET d == SelectSeq(s, LAMBDA c : ~IsAsciiWhitespace(c))
        n == Len(d)
    IN IF n > 0 /\ n % 4 = 0 /\ d[n] = 61
       THEN (IF d[n - 1] = 61 THEN SubSeq(d, 1, n - 2) ELSE SubSeq(d, 1, n - 1))
       ELSE d

\* atob throws InvalidCharacterError
AtobThrows(s) ==
    \/ Len(Base64Data(s)) % 4 = 1
    \/ \E i \in 1..Len(Base64Data(s)) : Base64Value(Base64Data(s)[i]) < 0

RECURSIVE Base64Bytes(_)
\* four characters give three bytes, a rest of three gives two, of two one
Base64Bytes(d) ==
    IF Len(d) < 2 THEN <<>>
    ELSE IF Len(d) = 2
         THEN <<(Base64Value(d[1]) * 64 + Base64Value(d[2])) \div 16>>
    ELSE IF Len(d) = 3
         THEN <<(Base64Value(d[1]) * 4096 + Base64Value(d[2]) * 64 + Base64Value(d[3])) \div 1024,
                ((Base64Value(d[1]) * 4096 + Base64Value(d[2]) * 64 + Base64Value(d[3])) \div 4) % 256>>
    ELSE <<(Base64Value(d[1]) * 4 + Base64Value(d[2]) \div 16) % 256,
           (Base64Value(d[2]) * 16 + Base64Value(d[3]) \div 4) % 256,
           (Base64Value(d[3]) * 64 + Base64Value(d[4])) % 256>>
         \o Base64Bytes(SubSeq(d, 5, Len(d)))

\* atob(s) when it does not throw
Atob(s) == Base64Bytes(Base64Data(s))

\* the replacement of one character by .replace(/[<>&"']/g, ...)
EscapeChar(c) ==
    IF c = 60 THEN <<38, 108, 116, 59>>
    ELSE IF c = 62 THEN <<38, 103, 116, 59>>
    ELSE IF c = 38 THEN <<38, 97, 109, 112, 59>>
    ELSE IF c = 34 THEN <<38, 113, 117, 111, 116, 59>>
    ELSE IF c = 39 THEN <<38, 35, 51, 57, 59>>
    ELSE <<c>>

RECURSIVE Sanitize(_)
Sanitize(s) == IF Len(s) = 0 THEN <<>> ELSE EscapeChar(s[1]) \o Sanitize(Tail(s))

\* objectData.decoded / returnData.decoded for the element's textContent
DecodeContent(text) ==
    IF Len(text) = 0 THEN Null
    ELSE IF AtobThrows(text) THEN Sanitize(text)
    ELSE Sanitize(Atob(text))

\* event.objectData / event.returnData; present is FALSE while the property
\* is undefined
ContentData(c) ==
    IF c.present
    THEN [present |-> TRUE, encoded |-> c.text, decoded |-> DecodeContent(c.text)]
    ELSE [present |-> FALSE, encoded |-> <<>>, decoded |-> Null]

\* eventEl.getAttribute("source") || null
NoSource == "null"

\* event.parameterTaintRanges while the property is undefined
NoRanges == <<>>

\* TraceParser.extractArgs
ExtractArgs(args) ==
    [i \in 1..Len(args) |->
        [tracked |-> args[i].tracked,
         encodedValue |-> args[i].text,
         decodedValue |-> IF ~args[i].tracked THEN Null
                          ELSE IF AtobThrows(args[i].text) THEN UnableToDecode
                          ELSE Atob(args[i].text)]]

\* the event objects made of allEvents: the dedup pass, then allEvents.map
EventsOf(all) ==
    LET attrs == DedupObjectIds([i \in 1..Len(all) |-> all[i].objectId])
    IN [i \in 1..Len(all) |->
          [objectId |-> AttrOrSynth(attrs[i], i),
           time |-> all[i].time,
           type |-> all[i].type,
           isTriggerEvent |-> all[i].type = "Trigger",
           isSourceEvent |-> all[i].type \in {"Creation", "Source"},
           parentObjectIds |-> all[i].parents,
           source |-> all[i].source,
           parameterTaintRanges |-> NoRanges,
           args |-> ExtractArgs(all[i].args),
           objectData |-> ContentData(all[i].object),
           returnData |-> ContentData(all[i].return)]]

ExtractEvents(elems) == EventsOf(CollectEvents(elems))

----------------------------------------------------------------------------
(* TraceParser.buildNodes *)

\* Fields the renderer adds later are present from the start with the value
\* they have while the property is still undefined on the object.
NoBase == 0 - 1
NoCategory == 0 - 1

NewNode(id, type, isSource, isTrigger) ==
    [id |-> id, type |-> type, isSourceEvent |-> isSource, isTriggerEvent |-> isTrigger,
     isCollapsedGroup |-> FALSE, members |-> <<>>,
     category |-> NoCategory, baseId |-> NoBase,
     positioned |-> FALSE, x |-> 0, y |-> 0, layer |-> 0 - 1]

HttpRequestNode == NewNode(RequestId, "http-request", FALSE, FALSE)

RouteNode == NewNode(RouteId, "route", FALSE, FALSE)

IsSource(e) == e.isSourceEvent \/ e.type \in {"Creation", "Source"}
IsViolation(e) == e.isTriggerEvent \/ e.type = "Trigger"

EventNode(e) == NewNode(e.objectId, "trace-event", IsSource(e), IsViolation(e))

BuildNodes(events) ==
    <<HttpRequestNode, RouteNode>> \o [i \in 1..Len(events) |-> EventNode(events[i])]

----------------------------------------------------------------------------
(* TraceParser.getDataFlowInfo, as buildNodes calls it for every event: its *)
(* effect on the event                                                      *)

\* [{tag: 'untrusted', range: `0:${paramValue.length}`}]
WholeValueRange(value) == <<[tag |-> "untrusted", from |-> 0, to |-> Len(value)]>>

\* decodedValue || ''
ValueOrEmpty(v) == IF v = Null THEN <<>> ELSE v

\* a decoded value that is neither null nor the empty string
IsTruthy(v) == v # Null /\ Len(v) > 0

\* the ranges written whatever the kind of the event
ParameterTaintRangesOfAnyEvent(e) ==
    IF Len(SelectSeq(e.args, LAMBDA a : a.tracked)) > 0
    THEN WholeValueRange(ValueOrEmpty(SelectSeq(e.args, LAMBDA a : a.tracked)[1].decodedValue))
    ELSE IF e.source = "P0" /\ Len(e.args) > 0
         THEN WholeValueRange(ValueOrEmpty(e.args[1].decodedValue))
    ELSE IF e.objectData.present /\ IsTruthy(e.objectData.decoded)
         THEN WholeValueRange(e.objectData.decoded)
    ELSE IF e.returnData.present /\ IsTruthy(e.returnData.decoded)
         THEN WholeValueRange(e.returnData.decoded)
    ELSE e.parameterTaintRanges

\* event.parameterTaintRanges after getDataFlowInfo(event, targetInfo)
ParameterTaintRanges(e) ==
    IF IsSource(e) \/ ~IsViolation(e) THEN e.parameterTaintRanges
    ELSE IF Len(SelectSeq(e.args, LAMBDA a : a.tracked)) > 0
         THEN WholeValueRange(ValueOrEmpty(SelectSeq(e.args, LAMBDA a : a.tracked)[1].decodedValue))
    ELSE IF e.source = "P0" /\ Len(e.args) > 0
         THEN WholeValueRange(ValueOrEmpty(e.args[1].decodedValue))
    ELSE IF e.objectData.present /\ IsTruthy(e.objectData.decoded)
         THEN WholeValueRange(e.objectData.decoded)
    ELSE IF e.returnData.present /\ IsTruthy(e.returnData.decoded)
         THEN WholeValueRange(e.returnData.decoded)
    ELSE e.parameterTaintRanges

\* the events as buildNodes leaves them
AnnotatedEvents(events) ==
    [i \in 1..Len(events) |->
        [events[i] EXCEPT !.parameterTaintRanges = ParameterTaintRanges(events[i])]]

----------------------------------------------------------------------------
(* TraceParser.buildEdges *)

Edge(s, t) == [source |-> s, target |-> t]

RECURSIVE Flatten(_)
Flatten(ss) == IF Len(ss) = 0 THEN <<>> ELSE ss[1] \o Flatten(Tail(ss))

\* eventMap[id]
InEventMap(events, id) == \E i \in 1..Len(events) : events[i].objectId = id

\* eventPositions[id]: the last index written for id
EventPositions(events, id) == MaxOf({i \in 1..Len(events) : events[i].objectId = id})

\* events.find(e => eventPositions[e.objectId] === i) is defined
FoundAt(events, i) == EventPositions(events, events[i].objectId) = i

\* nodesMissingObjectId.includes(id)
MissingObjectId(events, id) ==
    \E i \in 1..Len(events) :
        /\ events[i].objectId = id
        /\ ~IsNumericId(id)
        /\ Len(id) >= 2 /\ id[1] = EVENT

\* baseIdMap[base].length
BaseIdCount(events, base) ==
    Cardinality({i \in 1..Len(events) :
                    IsNumericId(events[i].objectId) /\ events[i].objectId[1] = base})

\* sourceNodeMap[base] is set
HasSourceNode(events, base) ==
    \E i \in 1..Len(events) :
        IsNumericId(events[i].objectId) /\ events[i].objectId[1] = base /\ IsSource(events[i])

\* the event immediately before position pos in the file, else "route"
PrecedingId(events, pos) ==
    LET C == {i \in 1..(pos - 1) : FoundAt(events, i)}
    IN IF C = {} THEN RouteId ELSE events[MaxOf(C)].objectId

\* the edge to the event immediately after position pos, if any
SuccessorEdges(events, pos, cur) ==
    LET C == {i \in (pos + 1)..Len(events) : FoundAt(events, i)}
    IN IF C = {} THEN <<>>
       ELSE <<Edge(cur, events[CHOOSE i \in C : \A j \in C : i <= j].objectId)>>

\* the forEach over event.parentObjectIds, one parent
ParentEdge(events, e, parentId) ==
    LET redirect ==
            /\ IsNumericId(parentId)
            /\ HasSourceNode(events, parentId[1])
            /\ BaseIdCount(events, parentId[1]) > 1
            /\ InEventMap(events, GroupIdOf(parentId[1]))
            /\ ~(IsSource(e) /\ StartsWith(Chars(e.objectId), Digits(parentId[1])))
    IN IF redirect THEN <<Edge(GroupIdOf(parentId[1]), e.objectId)>>
       ELSE IF parentId = RouteId \/ parentId = RequestId \/ InEventMap(events, parentId)
            THEN <<Edge(parentId, e.objectId)>>
       ELSE <<>>

\* the closest source node before the event in sortedEvents, else "route"
BestSourceId(sorted, sourceNodes, cur) ==
    LET sourceIndex == CHOOSE i \in 1..Len(sorted) :
                          /\ sorted[i].objectId = cur
                          /\ \A j \in 1..(i - 1) : sorted[j].objectId # cur
        C == {i \in 1..(sourceIndex - 1) : sorted[i].objectId \in sourceNodes}
    IN IF C = {} THEN RouteId ELSE sorted[MaxOf(C)].objectId

\* edges pushed by the first pass for sortedEvents[k]
FirstPassEdges(events, sorted, k) ==
    LET e == sorted[k]
        cur == e.objectId
        pos == EventPositions(events, cur)
    IN IF IsViolation(e) THEN <<Edge(PrecedingId(events, pos), cur)>>
       ELSE IF Len(e.parentObjectIds) > 0
            THEN Flatten([j \in 1..Len(e.parentObjectIds) |->
                             ParentEdge(events, e, e.parentObjectIds[j])])
       ELSE IF IsSource(e) THEN <<Edge(RouteId, cur)>>
       ELSE IF MissingObjectId(events, cur)
            THEN <<Edge(PrecedingId(events, pos), cur)>> \o SuccessorEdges(events, pos, cur)
       ELSE <<>>

\* nodesWithoutParents entries pushed by the first pass for sortedEvents[k],
\* as the edges the second pass makes of them
SecondPassEdges(events, sorted, k) ==
    LET e == sorted[k]
        cur == e.objectId
        sourceNodes == {sorted[i].objectId : i \in {j \in 1..Len(sorted) : IsSource(sorted[j])}}
        previousEventId == IF k = 1 THEN RouteId ELSE sorted[k - 1].objectId
    IN IF IsViolation(e) \/ Len(e.parentObjectIds) > 0 \/ IsSource(e)
          \/ MissingObjectId(events, cur)
       THEN <<>>
       ELSE IF sourceNodes # {} /\ cur \notin sourceNodes
            THEN <<Edge(BestSourceId(sorted, sourceNodes, cur), cur)>>
       ELSE <<Edge(previousEventId, cur)>>

\* the hard-wired 853-group -> 951-group edge
SpecialEdges(events, edges) ==
    LET wanted == \E i \in 1..Len(events) :
                     /\ Includes(Chars(events[i].objectId), Digits(951))
                     /\ \E j \in 1..Len(events[i].parentObjectIds) :
                           Includes(Chars(events[i].parentObjectIds[j]), Digits(853))
        e == Edge(GroupIdOf(853), GroupIdOf(951))
    IN IF wanted /\ e \notin Range(edges) THEN <<e>> ELSE <<>>

BuildEdges(events) ==
    LET sorted == SortByTime(events)
        first == Flatten([k \in 1..Len(sorted) |-> FirstPassEdges(events, sorted, k)])
        second == Flatten([k \in 1..Len(sorted) |-> SecondPassEdges(events, sorted, k)])
        edges == <<Edge(RequestId, RouteId)>> \o first \o second
    IN edges \o SpecialEdges(events, edges)

----------------------------------------------------------------------------
(* GraphRenderer.groupSimilarNodes *)

RECURSIVE SeqFilterIdx(_, _, _)
\* the elements s[i], i >= from, whose index is in the set keep, in order
SeqFilterIdx(s, keep, from) ==
    IF from > Len(s) THEN <<>>
    ELSE IF from \in keep THEN <<s[from]>> \o SeqFilterIdx(s, keep, from + 1)
    ELSE SeqFilterIdx(s, keep, from + 1)

RECURSIVE AscendingSeq(_)
AscendingSeq(S) ==
    IF S = {} THEN <<>>
    ELSE LET m == CHOOSE a \in S : \A b \in S : a <= b IN <<m>> \o AscendingSeq(S \ {m})

\* Object.keys(baseIdGroups): the base ids, ascending
BaseIds(nodes) == AscendingSeq({nodes[i].id[1] : i \in {j \in 1..Len(nodes) : IsNumericId(nodes[j].id)}})

GroupSources(nodes, base) ==
    SeqFilterIdx(nodes, {i \in 1..Len(nodes) :
        IsNumericId(nodes[i].id) /\ nodes[i].id[1] = base /\ nodes[i].isSourceEvent}, 1)

GroupOthers(nodes, base) ==
    SeqFilterIdx(nodes, {i \in 1..Len(nodes) :
        IsNumericId(nodes[i].id) /\ nodes[i].id[1] = base /\ ~nodes[i].isSourceEvent}, 1)

\* the bases whose non-source members are collapsed, in processing order
CollapsedBases(nodes) ==
    LET all == BaseIds(nodes)
    IN SeqFilterIdx(all, {i \in 1..Len(all) : Len(GroupOthers(nodes, all[i])) > 1}, 1)

Ids(ns) == {ns[i].id : i \in 1..Len(ns)}

RepresentativeNode(base, others) ==
    [NewNode(GroupIdOf(base), others[1].type, FALSE,
             \E i \in 1..Len(others) : others[i].isTriggerEvent)
       EXCEPT !.isCollapsedGroup = TRUE,
              !.members = [i \in 1..Len(others) |-> others[i].id],
              !.category = others[1].category]

BaseOf(id) == IF IsNumericId(id) THEN id[1] ELSE NoBase

\* the edgesToUpdate entries one edge contributes while one group is processed
EdgeUpdates(base, sources, others, edge) ==
    LET src == edge.source
        tgt == edge.target
    IN IF src \in Ids(sources) /\ tgt \in Ids(others)
       THEN <<[oldSource |-> src, oldTarget |-> tgt, remove |-> TRUE,
               newSource |-> src, newTarget |-> tgt]>>
       ELSE (IF BaseOf(src) = base /\ src \in Ids(others) /\ tgt \notin Ids(others)
             THEN <<[oldSource |-> src, oldTarget |-> tgt, remove |-> FALSE,
                     newSource |-> GroupIdOf(base), newTarget |-> tgt]>>
             ELSE <<>>)
            \o
            (IF BaseOf(tgt) = base /\ tgt \in Ids(others) /\ src \notin Ids(others)
                /\ src \notin Ids(sources)
             THEN <<[oldSource |-> src, oldTarget |-> tgt, remove |-> FALSE,
                     newSource |-> src, newTarget |-> GroupIdOf(base)]>>
             ELSE <<>>)

GroupEdgeUpdates(nodes, edges, base) ==
    Flatten([i \in 1..Len(edges) |->
                EdgeUpdates(base, GroupSources(nodes, base), GroupOthers(nodes, base), edges[i])])

EdgesToUpdate(nodes, edges) ==
    LET bases == CollapsedBases(nodes)
    IN Flatten([b \in 1..Len(bases) |-> GroupEdgeUpdates(nodes, edges, bases[b])])

NewEdgesToAdd(nodes) ==
    LET bases == CollapsedBases(nodes)
    IN Flatten([b \in 1..Len(bases) |->
                  LET srcs == GroupSources(nodes, bases[b])
                  IN [i \in 1..Len(srcs) |-> Edge(srcs[i].id, GroupIdOf(bases[b]))]])

\* edgesToUpdate.find(u => u.oldSource === edge.source && u.oldTarget === edge.target)
HasUpdate(updates, edge) ==
    \E i \in 1..Len(updates) :
        updates[i].oldSource = edge.source /\ updates[i].oldTarget = edge.target

FindUpdate(updates, edge) ==
    updates[CHOOSE i \in 1..Len(updates) :
               /\ updates[i].oldSource = edge.source /\ updates[i].oldTarget = edge.target
               /\ \A j \in 1..(i - 1) :
                     ~(updates[j].oldSource = edge.source /\ updates[j].oldTarget = edge.target)]

UpdatedEdges(updates, edges) ==
    LET kept == SeqFilterIdx(edges, {i \in 1..Len(edges) :
                    ~HasUpdate(updates, edges[i]) \/ ~FindUpdate(updates, edges[i]).remove}, 1)
    IN [i \in 1..Len(kept) |->
          IF HasUpdate(updates, kept[i])
          THEN Edge(FindUpdate(updates, kept[i]).newSource, FindUpdate(updates, kept[i]).newTarget)
          ELSE kept[i]]

\* keeps the first of every (source, target) pair
UniqueEdges(edges) ==
    SeqFilterIdx(edges, {i \in 1..Len(edges) : \A j \in 1..(i - 1) : edges[j] # edges[i]}, 1)

GroupSimilarNodes(nodes, edges) ==
    LET bases == CollapsedBases(nodes)
        removed == UNION {Ids(GroupOthers(nodes, bases[b])) : b \in 1..Len(bases)}
        newNodes == SeqFilterIdx(nodes, {i \in 1..Len(nodes) : nodes[i].id \notin removed}, 1)
                    \o [b \in 1..Len(bases) |->
                          RepresentativeNode(bases[b], GroupOthers(nodes, bases[b]))]
        unique == UniqueEdges(UpdatedEdges(EdgesToUpdate(nodes, edges), edges)
                              \o NewEdgesToAdd(nodes))
        fix == Edge(GroupIdOf(853), GroupIdOf(951))
    IN [nodes |-> newNodes,
        edges |-> IF GroupIdOf(853) \in Ids(newNodes) /\ GroupIdOf(951) \in Ids(newNodes)
                     /\ fix \notin Range(unique)
                  THEN Append(unique, fix) ELSE unique]

----------------------------------------------------------------------------
(* GraphRenderer.createDagLayout *)

Scale == 2 * 2 * 3 * 5

MarginTop == 180
MarginBottom == 50
VerticalSpacing == 100
HorizontalSpacing == 120
VerticalStep == 80

\* node.category as render and createDagLayout assign it
CategoryOf(n) ==
    IF n.id = RequestId THEN 0
    ELSE IF n.id = RouteId THEN 1
    ELSE IF n.isSourceEvent THEN 2
    ELSE IF n.isTriggerEvent THEN 4
    ELSE 3

\* node.baseId = parseInt(match[1]) when the id matches, else left as it was
BaseIdOf(n) == IF IsBaseOrGroupId(n.id) THEN n.id[1] ELSE n.baseId

Categorize(ns) ==
    [i \in 1..Len(ns) |-> [ns[i] EXCEPT !.category = CategoryOf(ns[i]), !.baseId = BaseIdOf(ns[i])]]

\* nodes.find(n => n.id === id): the index of the first such node, 0 if none
FindNode(ns, id) ==
    IF \E i \in 1..Len(ns) : ns[i].id = id
    THEN CHOOSE i \in 1..Len(ns) : ns[i].id = id /\ \A j \in 1..(i - 1) : ns[j].id # id
    ELSE 0

InCount(links, id) == Cardinality({i \in 1..Len(links) : links[i].target = id})
OutCount(links, id) == Cardinality({i \in 1..Len(links) : links[i].source = id})

\* the comparator of categoryNodes.sort
CompareNodes(ns, a, b) ==
    IF ns[a].baseId # NoBase /\ ns[b].baseId # NoBase
    THEN ns[a].baseId - ns[b].baseId
    ELSE LocaleCompare(ns[a].id, ns[b].id)

RECURSIVE InsertSorted(_, _, _)
InsertSorted(ns, sorted, a) ==
    IF Len(sorted) = 0 THEN <<a>>
    ELSE IF CompareNodes(ns, sorted[Len(sorted)], a) <= 0 THEN Append(sorted, a)
    ELSE Append(InsertSorted(ns, SubSeq(sorted, 1, Len(sorted) - 1), a), sorted[Len(sorted)])

RECURSIVE SortNodes(_, _, _)
\* Array.prototype.sort (stable) of the node indices idxs
SortNodes(ns, idxs, done) ==
    IF Len(idxs) = 0 THEN done ELSE SortNodes(ns, Tail(idxs), InsertSorted(ns, done, idxs[1]))

\* nodesByCategory[c], sorted as the positioning loop sorts it
CategoryNodes(ns, c) ==
    LET raw == AscendingSeq({i \in 1..Len(ns) : ns[i].category = c})
    IN IF c >= 2 THEN SortNodes(ns, raw, <<>>) ELSE raw

At(i, x, y) == [i |-> i, x |-> x, y |-> y]

RECURSIVE Place(_, _)
\* the assignments node.x = ..., node.y = ..., applied in order
Place(ns, as) ==
    IF Len(as) = 0 THEN ns
    ELSE Place([ns EXCEPT ![as[1].i].x = as[1].x, ![as[1].i].y = as[1].y,
                          ![as[1].i].positioned = TRUE], Tail(as))

\* one row spread around cx: startX + i * horizontalSpacing
SpreadRow(idxs, cx, y) ==
    [k \in 1..Len(idxs) |->
        At(idxs[k], cx - ((Len(idxs) - 1) * HorizontalSpacing * Scale) \div 2
                       + (k - 1) * HorizontalSpacing * Scale, y)]

PlaceHttpRoute(ns, centerX) ==
    LET http == CategoryNodes(ns, 0)
        route == CategoryNodes(ns, 1)
    IN [k \in 1..Len(http) |-> At(http[k], centerX, (MarginTop + 50) * Scale)]
       \o [k \in 1..Len(route) |-> At(route[k], centerX, (MarginTop + 150) * Scale)]

PlaceSources(ns, centerX) ==
    LET src == CategoryNodes(ns, 2)
        y == (MarginTop + 250) * Scale
    IN IF Len(src) = 1 THEN <<At(src[1], centerX, y)>>
       ELSE IF Len(src) = 2
            THEN <<At(src[1], centerX - HorizontalSpacing * Scale, y),
                   At(src[2], centerX + HorizontalSpacing * Scale, y)>>
       ELSE [k \in 1..Len(src) |->
               At(src[k], centerX - 200 * Scale + (k - 1) * ((400 * Scale) \div (Len(src) - 1)), y)]

\* the key of dataFlowNodesBySource a data flow node is filed under: the id of
\* its first parent that is a source node, or NoAttr for the general pool
SourceParentOf(ns, links, i) ==
    LET C == {l \in 1..Len(links) :
                /\ links[l].target = ns[i].id
                /\ FindNode(ns, links[l].source) # 0
                /\ ns[FindNode(ns, links[l].source)].category = 2}
    IN IF C = {} THEN NoAttr ELSE links[CHOOSE l \in C : \A m \in C : l <= m].source

IsMainFlow(links, n) == InCount(links, n.id) = 1 /\ OutCount(links, n.id) = 1

\* the data flow nodes filed under source node s
PlaceUnderSource(ns, links, flow, s) ==
    LET children == SeqFilterIdx(flow, {k \in 1..Len(flow) :
                        SourceParentOf(ns, links, flow[k]) = ns[s].id}, 1)
        main == SeqFilterIdx(children, {k \in 1..Len(children) :
                        IsMainFlow(links, ns[children[k]])}, 1)
        other == SeqFilterIdx(children, {k \in 1..Len(children) :
                        ~IsMainFlow(links, ns[children[k]])}, 1)
        rowY == ns[s].y + VerticalSpacing * Scale
        otherY == rowY + (IF Len(main) > 0 THEN (VerticalStep * Scale) \div 2 ELSE 0)
    IN [k \in 1..Len(main) |->
           At(main[k], ns[s].x, rowY + (k - 1) * ((VerticalStep * Scale) \div 2))]
       \o SpreadRow(other, ns[s].x, otherY)

\* the general pool with only the main flow, junction and endpoint nodes placed
PlaceGeneralPoolWithoutOthers(ns, links, flow, centerX) ==
    LET pool == SeqFilterIdx(flow, {k \in 1..Len(flow) :
                     SourceParentOf(ns, links, flow[k]) = NoAttr}, 1)
        isMain(i) == IsMainFlow(links, ns[i])
        isEnd(i) == InCount(links, ns[i].id) > 0 /\ OutCount(links, ns[i].id) = 0
        isJunction(i) == InCount(links, ns[i].id) > 1 \/ OutCount(links, ns[i].id) > 1
        main == SeqFilterIdx(pool, {k \in 1..Len(pool) : isMain(pool[k])}, 1)
        ends == SeqFilterIdx(pool, {k \in 1..Len(pool) : isEnd(pool[k])}, 1)
        junctions == SeqFilterIdx(pool, {k \in 1..Len(pool) : isJunction(pool[k])}, 1)
        half == (VerticalStep * Scale) \div 2
        baseY == (MarginTop + 350) * Scale
        afterMain == baseY + Len(main) * half
        afterJunctions == IF Len(junctions) > 0 THEN afterMain + half ELSE afterMain
    IN [k \in 1..Len(main) |-> At(main[k], centerX, baseY + (k - 1) * half)]
       \o SpreadRow(junctions, centerX, afterMain)
       \o SpreadRow(ends, centerX, afterJunctions)

\* the general pool: main flow, junction, endpoint and other nodes
PlaceGeneralPool(ns, links, flow, centerX) ==
    LET pool == SeqFilterIdx(flow, {k \in 1..Len(flow) :
                     SourceParentOf(ns, links, flow[k]) = NoAttr}, 1)
        isMain(i) == IsMainFlow(links, ns[i])
        isEnd(i) == InCount(links, ns[i].id) > 0 /\ OutCount(links, ns[i].id) = 0
        isJunction(i) == InCount(links, ns[i].id) > 1 \/ OutCount(links, ns[i].id) > 1
        main == SeqFilterIdx(pool, {k \in 1..Len(pool) : isMain(pool[k])}, 1)
        ends == SeqFilterIdx(pool, {k \in 1..Len(pool) : isEnd(pool[k])}, 1)
        junctions == SeqFilterIdx(pool, {k \in 1..Len(pool) : isJunction(pool[k])}, 1)
        other == SeqFilterIdx(pool, {k \in 1..Len(pool) :
                     ~isMain(pool[k]) /\ ~isEnd(pool[k]) /\ ~isJunction(pool[k])}, 1)
        half == (VerticalStep * Scale) \div 2
        baseY == (MarginTop + 350) * Scale
        afterMain == baseY + Len(main) * half
        afterJunctions == IF Len(junctions) > 0 THEN afterMain + half ELSE afterMain
    IN [k \in 1..Len(main) |-> At(main[k], centerX, baseY + (k - 1) * half)]
       \o SpreadRow(junctions, centerX, afterMain)
       \o SpreadRow(ends \o other, centerX, afterJunctions)

\* sourceNodes.forEach: a source id is served once, then deleted from the map
PlaceDataFlow(ns, links, centerX) ==
    LET flow == CategoryNodes(ns, 3)
        src == CategoryNodes(ns, 2)
        firsts == SeqFilterIdx(src, {k \in 1..Len(src) :
                      \A j \in 1..(k - 1) : ns[src[j]].id # ns[src[k]].id}, 1)
    IN Flatten([k \in 1..Len(firsts) |-> PlaceUnderSource(ns, links, flow, firsts[k])])
       \o PlaceGeneralPool(ns, links, flow, centerX)

\* the largest y among all positioned nodes, whatever their category
MaxPlacedY(ns) ==
    LET Y == {ns[i].y : i \in {j \in 1..Len(ns) : ns[j].positioned /\ ns[j].y > 0}}
    IN IF Y = {} THEN 0 ELSE MaxOf(Y)

\* the largest y among the positioned data flow nodes, 0 if none
MaxDataFlowY(ns) ==
    LET Y == {ns[i].y : i \in {j \in 1..Len(ns) :
                 ns[j].category = 3 /\ ns[j].positioned /\ ns[j].y > 0}}
    IN IF Y = {} THEN 0 ELSE MaxOf(Y)

PrecedingY(ns, links, i) ==
    IF InCount(links, ns[i].id) > 0
    THEN MaxDataFlowY(ns) + (VerticalSpacing * Scale * 3) \div 2
    ELSE (MarginTop + 450) * Scale

RECURSIVE InsertByY(_, _, _, _)
InsertByY(ns, links, sorted, a) ==
    IF Len(sorted) = 0 THEN <<a>>
    ELSE IF PrecedingY(ns, links, sorted[Len(sorted)]) <= PrecedingY(ns, links, a)
         THEN Append(sorted, a)
    ELSE Append(InsertByY(ns, links, SubSeq(sorted, 1, Len(sorted) - 1), a), sorted[Len(sorted)])

RECURSIVE SortByPrecedingY(_, _, _, _)
SortByPrecedingY(ns, links, idxs, done) ==
    IF Len(idxs) = 0 THEN done
    ELSE SortByPrecedingY(ns, links, Tail(idxs), InsertByY(ns, links, done, idxs[1]))

MinOf2(a, b) == IF a <= b THEN a ELSE b
Abs(a) == IF a < 0 THEN 0 - a ELSE a

PlaceViolations(ns, links, centerX, height) ==
    LET vi == SortByPrecedingY(ns, links, CategoryNodes(ns, 4), <<>>)
        bottomY == (height - MarginBottom - 100) * Scale
        availableHeight == bottomY - (MarginTop + 450) * Scale
        spacing == MinOf2(VerticalSpacing * Scale, availableHeight \div (Len(vi) + 1))
        baseY == MaxDataFlowY(ns) + VerticalSpacing * Scale * 3
        sameGroup(k) == SeqFilterIdx(vi, {j \in 1..Len(vi) :
                            Abs(PrecedingY(ns, links, vi[j]) - PrecedingY(ns, links, vi[k]))
                               < 10 * Scale}, 1)
        groupIndex(k) == CHOOSE g \in 1..Len(sameGroup(k)) :
                            /\ ns[sameGroup(k)[g]].id = ns[vi[k]].id
                            /\ \A h \in 1..(g - 1) : ns[sameGroup(k)[h]].id # ns[vi[k]].id
        xOf(k) == IF Len(vi) = 2
                  THEN (IF k = 1 THEN centerX - (HorizontalSpacing * Scale) \div 2
                                 ELSE centerX + (HorizontalSpacing * Scale) \div 2)
                  ELSE IF Len(sameGroup(k)) > 1
                       THEN centerX - ((Len(sameGroup(k)) - 1) * HorizontalSpacing * Scale) \div 2
                                    + (groupIndex(k) - 1) * HorizontalSpacing * Scale
                  ELSE centerX
    IN IF Len(vi) = 1 THEN <<At(vi[1], centerX, baseY)>>
       ELSE [k \in 1..Len(vi) |-> At(vi[k], xOf(k), baseY + (k - 1) * spacing)]

\* Step 4 for one node: push it below its lowest parent
CorrectNode(ns, links, i) ==
    LET P == {ns[FindNode(ns, links[l].source)].y :
                 l \in {m \in 1..Len(links) :
                          /\ links[m].target = ns[i].id
                          /\ FindNode(ns, links[m].source) # 0
                          /\ ns[FindNode(ns, links[m].source)].positioned}}
        maxParentY == IF P = {} THEN 0 ELSE MaxOf(P \cup {0})
    IN IF ns[i].id = RequestId \/ ns[i].id = RouteId THEN ns
       ELSE IF maxParentY > 0 /\ ns[i].positioned /\ ns[i].y <= maxParentY + 50 * Scale
            THEN [ns EXCEPT ![i].y = maxParentY + 80 * Scale]
       ELSE ns

RECURSIVE CorrectFrom(_, _, _)
\* nodes.forEach of Step 4, in node-list order
CorrectFrom(ns, links, i) ==
    IF i > Len(ns) THEN ns ELSE CorrectFrom(CorrectNode(ns, links, i), links, i + 1)

\* the final check reads the undeclared leftMargin when a node has no position
DagLayoutThrows(ns) == \E i \in 1..Len(ns) : ~ns[i].positioned

\* Steps 1 and 2: the request, the route and the source row
PlaceTopRows(ns, centerX) ==
    Place(ns, PlaceHttpRoute(ns, centerX) \o PlaceSources(ns, centerX))

\* Step 3a: the data flow nodes
PlaceDataFlowRows(ns, links, centerX) == Place(ns, PlaceDataFlow(ns, links, centerX))

\* Step 3b: the violation nodes
PlaceViolationRows(ns, links, centerX, height) ==
    Place(ns, PlaceViolations(ns, links, centerX, height))

DagResult(ns) == [nodes |-> ns, threw |-> DagLayoutThrows(ns)]

CreateDagLayout(nodes, links, width, height) ==
    DagResult(
        CorrectFrom(
            PlaceViolationRows(
                PlaceDataFlowRows(
                    PlaceTopRows(Categorize(nodes), (width * Scale) \div 2),
                    links, (width * Scale) \div 2),
                links, (width * Scale) \div 2, height),
            links, 1))

----------------------------------------------------------------------------
(* GraphRenderer.createSankeyLayout.  The d3-sankey plug-in (libs/d3-sankey) *)
(* is modelled from section 4.4 of the specification: a layer per node,     *)
(* consistent with edge direction, and a failure on a circular edge set.    *)

\* nodeMap.get(id): the last index set for id, 0 if none
SankeyIndex(ns, id) ==
    IF \E i \in 1..Len(ns) : ns[i].id = id THEN MaxOf({i \in 1..Len(ns) : ns[i].id = id}) ELSE 0

\* the links with source and target exchanged
SankeyLinksReversed(ns, links) ==
    LET kept == SeqFilterIdx(links, {i \in 1..Len(links) :
                    SankeyIndex(ns, links[i].source) # 0 /\ SankeyIndex(ns, links[i].target) # 0}, 1)
    IN [i \in 1..Len(kept) |->
          [source |-> SankeyIndex(ns, kept[i].target), target |-> SankeyIndex(ns, kept[i].source)]]

\* sankeyLinks: the links whose two ends are in nodeMap
SankeyLinks(ns, links) ==
    LET kept == SeqFilterIdx(links, {i \in 1..Len(links) :
                    SankeyIndex(ns, links[i].source) # 0 /\ SankeyIndex(ns, links[i].target) # 0}, 1)
    IN [i \in 1..Len(kept) |->
          [source |-> SankeyIndex(ns, kept[i].source), target |-> SankeyIndex(ns, kept[i].target)]]

RECURSIVE NodeDepths(_, _, _, _, _)
\* depth = the length of the longest chain of links ending at the node; more
\* than n rounds means a circular link
NodeDepths(current, x, n, sl, depth) ==
    IF current = {} THEN [circular |-> FALSE, depth |-> depth]
    ELSE LET next == {sl[l].target : l \in {m \in 1..Len(sl) : sl[m].source \in current}}
             d == [i \in 1..n |-> IF i \in current THEN x ELSE depth[i]]
         IN IF x + 1 > n THEN [circular |-> TRUE, depth |-> d]
            ELSE NodeDepths(next, x + 1, n, sl, d)

SankeyDepths(ns, links) ==
    NodeDepths(1..Len(ns), 0, Len(ns), SankeyLinks(ns, links), [i \in 1..Len(ns) |-> 0])

\* sankeyJustify: a node without outgoing links goes to the last layer
SankeyLayer(sl, depth, i) ==
    IF \E l \in 1..Len(sl) : sl[l].source = i
    THEN depth[i]
    ELSE MaxOf({depth[j] : j \in DOMAIN depth})

\* the left edge of a layer inside extent [[100, 100], [1.5 width - 100, ...]]
SankeyX0(layer, layers, width) ==
    IF layers <= 1 THEN 100 * Scale
    ELSE 100 * Scale + layer * ((((width * 3 * Scale) \div 2) - 230 * Scale) \div (layers - 1))

SankeyCircular(ns, links) == SankeyDepths(ns, links).circular

\* the positions transferred back to the nodes; the vertical placement inside
\* a layer is the plug-in's relaxation, which is not reproduced: y is the top
\* of the extent
SankeyPlaced(ns, links, width) ==
    LET sl == SankeyLinks(ns, links)
        depth == SankeyDepths(ns, links).depth
        layers == MaxOf({depth[j] : j \in 1..Len(ns)} \cup {0}) + 1
    IN [i \in 1..Len(ns) |->
          [ns[i] EXCEPT !.layer = SankeyLayer(sl, depth, i),
                        !.x = SankeyX0(SankeyLayer(sl, depth, i), layers, width) + 15 * Scale,
                        !.y = 100 * Scale,
                        !.positioned = TRUE]]

\* createDagLayout / createSankeyLayout as GraphRenderer dispatches them: the
\* Flow layout when the mode is on and it can be computed, else the fallback
DagRun(dag) ==
    [nodes |-> dag.nodes, kind |-> "dag", useSankeyLayout |-> FALSE, threw |-> dag.threw,
     viaSankey |-> FALSE]

\* viaSankey: createSankeyLayout was entered, whatever layout it ended with
ViaSankey(run, sankeyMode) == [run EXCEPT !.viaSankey = sankeyMode]

\* createSankeyLayout without its two fallbacks: the error reaches the caller
RunLayoutWithoutFallback(nodes, links, sankeyMode, available, vp) ==
    IF sankeyMode /\ available /\ ~SankeyCircular(nodes, links)
    THEN [nodes |-> SankeyPlaced(nodes, links, vp.width), kind |-> "sankey",
          useSankeyLayout |-> TRUE, threw |-> FALSE, viaSankey |-> TRUE]
    ELSE IF sankeyMode
         THEN [nodes |-> nodes, kind |-> "sankey", useSankeyLayout |-> TRUE, threw |-> TRUE,
               viaSankey |-> TRUE]
    ELSE ViaSankey(DagRun(CreateDagLayout(nodes, links, vp.width, vp.height)), sankeyMode)

RunLayout(nodes, links, sankeyMode, available, vp) ==
    IF sankeyMode /\ available /\ ~SankeyCircular(nodes, links)
    THEN [nodes |-> SankeyPlaced(nodes, links, vp.width), kind |-> "sankey",
          useSankeyLayout |-> TRUE, threw |-> FALSE, viaSankey |-> TRUE]
    ELSE ViaSankey(DagRun(CreateDagLayout(nodes, links, vp.width, vp.height)), sankeyMode)

----------------------------------------------------------------------------
(* The application: parse a document, render it, interact *)

\* traceData is what parseXmlContent handed to its caller: nothing yet
\* (loaded and threw both FALSE), a returned object (loaded), or an error
\* thrown (threw)
NoTraceData == [loaded |-> FALSE, threw |-> FALSE, events |-> <<>>, nodes |-> <<>>, edges |-> <<>>]
NoData == [present |-> FALSE, nodes |-> <<>>, edges |-> <<>>]

\* throw new Error("Error parsing XML content")
ParseErrorThrown == [NoTraceData EXCEPT !.threw = TRUE]

\* the node of the minimal structure the catch block of extractTraceData returns
ErrorNode == NewNode(<<ERROR>>, "http-request", FALSE, FALSE)

\* the object returned by the catch block of extractTraceData
MinimalStructure ==
    [loaded |-> TRUE, threw |-> FALSE, events |-> <<>>, nodes |-> <<ErrorNode>>, edges |-> <<>>]

\* the try block of extractTraceData throws before the events are extracted
StructureMissing(doc) == ~doc.finding \/ ~doc.request \/ ~doc.events

TraceDataOf(events) ==
    [loaded |-> TRUE, threw |-> FALSE, events |-> AnnotatedEvents(events),
     nodes |-> BuildNodes(events), edges |-> BuildEdges(events)]

\* what extractTraceData returns
ExtractTraceData(doc) ==
    IF StructureMissing(doc) THEN MinimalStructure ELSE TraceDataOf(ExtractEvents(doc.elems))

\* TraceParser.parseXmlContent / extractTraceData
ParseXmlContent ==
    /\ ~traceData.loaded
    /\ ~traceData.threw
    /\ traceData' = IF xmlDoc.parsererror THEN ParseErrorThrown ELSE ExtractTraceData(xmlDoc)
    /\ UNCHANGED <<xmlDoc, viewport, data, usingSankeyLayout, useSankeyLayout,
                   sankeyAvailable, layouts, clicks>>
    /\ UNCHANGED <<selected, reading, timers, drag>>

Snapshot(run) ==
    [kind |-> run.kind, threw |-> run.threw, nodes |-> run.nodes, viaSankey |-> run.viaSankey]

\* the state a finished layout run leaves behind
Rendered(edges, run, history) ==
    /\ data' = [present |-> TRUE, nodes |-> run.nodes, edges |-> edges]
    /\ useSankeyLayout' = run.useSankeyLayout
    /\ layouts' = Append(history, Snapshot(run))

RenderGraph(g) ==
    Rendered(g.edges,
             RunLayout(Categorize(g.nodes), g.edges, useSankeyLayout, sankeyAvailable, viewport),
             <<>>)

\* GraphRenderer.render, called by processXmlContent with the parsed graph
Render ==
    /\ traceData.loaded
    /\ ~data.present
    /\ RenderGraph(GroupSimilarNodes(traceData.nodes, traceData.edges))
    /\ UNCHANGED <<xmlDoc, viewport, traceData, usingSankeyLayout, sankeyAvailable, clicks>>
    /\ UNCHANGED <<selected, reading, timers, drag>>

\* a re-render that starts again from the parser's graph, without the
\* grouping pass
RelayoutUngrouped(mode, available) ==
    Rendered(traceData.edges,
             RunLayout(Categorize(traceData.nodes), traceData.edges, mode, available, viewport),
             layouts)

\* updateSize with forceRerender set: the layout is computed again on this.data
Relayout(mode, available) ==
    Rendered(data.edges, RunLayout(data.nodes, data.edges, mode, available, viewport), layouts)

\* the click handler of the layout toggle button
ToggleLayout ==
    /\ clicks < MaxClicks
    /\ clicks' = clicks + 1
    /\ \E loaded \in {"throws", "function", "no function"} :
          IF ~sankeyAvailable /\ loaded = "throws"
          THEN UNCHANGED <<data, usingSankeyLayout, useSankeyLayout, sankeyAvailable, layouts>>
          ELSE /\ sankeyAvailable' = (sankeyAvailable \/ loaded = "function")
               /\ usingSankeyLayout' = ~usingSankeyLayout
               /\ IF data.present
                  THEN Relayout(~usingSankeyLayout, sankeyAvailable \/ loaded = "function")
                  ELSE UNCHANGED <<data, useSankeyLayout, layouts>>
    /\ UNCHANGED <<xmlDoc, viewport, traceData, selected, reading, timers, drag>>

\* the sidebar toggle: forceRerender = true; updateSize()
ForceRerender ==
    /\ clicks < MaxClicks
    /\ clicks' = clicks + 1
    /\ IF data.present
       THEN Relayout(useSankeyLayout, sankeyAvailable)
       ELSE UNCHANGED <<data, useSankeyLayout, layouts>>
    /\ UNCHANGED <<xmlDoc, viewport, traceData, usingSankeyLayout, sankeyAvailable>>
    /\ UNCHANGED <<selected, reading, timers, drag>>

Next == ParseXmlContent \/ Render \/ ToggleLayout \/ ForceRerender

----------------------------------------------------------------------------
(* The application: files selected one after the other, and the drag      *)
(* gesture on a node of the drawn graph                                    *)

\* no gesture yet; id, originalX and originalY are those of the datum d
NoDrag == [phase |-> "none", id |-> NoAttr, originalX |-> 0, originalY |-> 0, count |-> 0]

\* the position the pointer is dragged to (event.x, event.y)
DragPoint == [x |-> 10 * Scale, y |-> 10 * Scale]

\* handleFileSelection up to its await: the file's text is being read
HandleFileSelection(doc) ==
    /\ Len(selected) < MaxSelections
    /\ selected' = Append(selected, doc)
    /\ reading' = reading \cup {Len(selected) + 1}
    /\ UNCHANGED <<xmlDoc, viewport, traceData, data, usingSankeyLayout, useSankeyLayout,
                   sankeyAvailable, layouts, clicks, timers, drag>>

\* the timers after processXmlContent: a thrown error is caught and shown,
\* a returned graph is rendered after the delay
TimersAfter(parsed) == IF parsed.loaded THEN Append(timers, parsed) ELSE timers

\* the read of selection n completes and processXmlContent runs on its text
ProcessXmlContent(n) ==
    /\ n \in reading
    /\ reading' = reading \ {n}
    /\ xmlDoc' = selected[n]
    /\ traceData' = IF selected[n].parsererror THEN ParseErrorThrown
                     ELSE ExtractTraceData(selected[n])
    /\ timers' = TimersAfter(IF selected[n].parsererror THEN ParseErrorThrown
                              ELSE ExtractTraceData(selected[n]))
    /\ UNCHANGED <<viewport, data, usingSankeyLayout, useSankeyLayout, sankeyAvailable,
                   layouts, clicks, selected, drag>>

\* the callback of setTimeout(..., 500): graphRenderer.render on the graph
\* parsed by the call that set the timer
RenderTimeout ==
    /\ Len(timers) > 0
    /\ timers' = Tail(timers)
    /\ RenderGraph(GroupSimilarNodes(Head(timers).nodes, Head(timers).edges))
    /\ UNCHANGED <<xmlDoc, viewport, traceData, usingSankeyLayout, sankeyAvailable, clicks,
                   selected, reading, drag>>

\* nodeInData.x = x; nodeInData.y = y, for this.data.nodes.find(n => n.id === id)
MoveNodeInData(nodes, id, x, y) ==
    IF FindNode(nodes, id) = 0 THEN nodes
    ELSE [nodes EXCEPT ![FindNode(nodes, id)].x = x, ![FindNode(nodes, id)].y = y]

\* GraphRenderer.dragstarted on the i-th node drawn
DragStarted(i) ==
    /\ data.present
    /\ drag.phase # "started"
    /\ drag.count < MaxDrags
    /\ i \in 1..Len(data.nodes)
    /\ drag' = [phase |-> "started", id |-> data.nodes[i].id,
                originalX |-> data.nodes[i].x, originalY |-> data.nodes[i].y,
                count |-> drag.count + 1]
    /\ UNCHANGED <<xmlDoc, viewport, traceData, data, usingSankeyLayout, useSankeyLayout,
                   sankeyAvailable, layouts, clicks, selected, reading, timers>>

\* GraphRenderer.dragged
Dragged ==
    /\ drag.phase = "started"
    /\ data' = [data EXCEPT !.nodes = MoveNodeInData(data.nodes, drag.id, DragPoint.x, DragPoint.y)]
    /\ UNCHANGED <<xmlDoc, viewport, traceData, usingSankeyLayout, useSankeyLayout,
                   sankeyAvailable, layouts, clicks, selected, reading, timers, drag>>

\* GraphRenderer.dragended
DragEnded ==
    /\ drag.phase = "started"
    /\ drag' = [drag EXCEPT !.phase = "ended"]
    /\ data' = [data EXCEPT !.nodes = MoveNodeInData(data.nodes, drag.id,
                                                      drag.originalX, drag.originalY)]
    /\ UNCHANGED <<xmlDoc, viewport, traceData, usingSankeyLayout, useSankeyLayout,
                   sankeyAvailable, layouts, clicks, selected, reading, timers>>

----------------------------------------------------------------------------
(* Input domains *)

Viewports == {[width |-> 1200, height |-> 900]}

\* an event element without object, return and args children
Elem(tag, time, objectId, type, parents) ==
    [tag |-> tag, time |-> time, objectId |-> objectId, type |-> type, parents |-> parents,
     source |-> NoSource, object |-> NoElement, return |-> NoElement, args |-> <<>>]

Arg(tracked, text) == [tracked |-> tracked, text |-> text]

SeqsUpTo(S, n) == UNION {[1..k -> S] : k \in 0..n}

\* a well-formed document with a finding, its request and its events element;
\* elems are the elements inside the events element, in document order
Doc(es) ==
    [parsererror |-> FALSE, finding |-> TRUE, request |-> TRUE, events |-> TRUE, elems |-> es]

InitWith(docs) ==
    /\ xmlDoc \in docs
    /\ viewport \in Viewports
    /\ traceData = NoTraceData
    /\ data = NoData
    /\ usingSankeyLayout = FALSE
    /\ useSankeyLayout = FALSE
    /\ sankeyAvailable \in BOOLEAN
    /\ layouts = <<>>
    /\ clicks = 0
    /\ selected = <<>>
    /\ reading = {}
    /\ timers = <<>>
    /\ drag = NoDrag

\* documents for the parser: colliding and missing object ids, the three event
\* tags, an element that is no event, and times out of document order
ParseElems ==
    {Elem("propagation-event", 0, id, "P2O", <<>>) : id \in {NoAttr, <<42>>, <<42, 1>>}}
    \cup {Elem("propagation-event", 1, <<42>>, "P2O", <<>>),
          Elem("tag-event", 0, <<42>>, "P2O", <<>>),
          Elem("method-event", 0, NoAttr, "P2O", <<>>),
          Elem("signature", 0, NoAttr, "P2O", <<>>)}

ParseDocs == {Doc(es) : es \in SeqsUpTo(ParseElems, MaxParseElems)}

\* documents for edge resolution: event kinds and parent links vary
BuildElems ==
    {Elem("propagation-event", 0, id, "Creation", <<>>) : id \in {NoAttr, <<5>>, <<7>>}}
    \cup {Elem("propagation-event", 0, id, "Trigger", ps) :
             id \in {NoAttr, <<5>>, <<7>>}, ps \in {<<>>, <<<<9>>>>}}
    \cup {Elem("propagation-event", 0, id, "P2O", ps) :
             id \in {NoAttr, <<5>>, <<7>>},
             ps \in {<<>>, <<<<7>>>>, <<<<7>>, <<7>>>>, <<<<9>>>>}}

BuildDocs == {Doc(es) : es \in SeqsUpTo(BuildElems, MaxBuildElems)}

\* documents for the grouping pass: few base ids, shared by several events
GroupElems ==
    {Elem("propagation-event", 0, id, "Creation", <<>>) : id \in {<<5>>, <<7>>}}
    \cup {Elem("propagation-event", 0, id, "P2O", ps) :
             id \in {<<5>>, <<7>>}, ps \in {<<>>, <<<<7>>>>}}

GroupDocs == {Doc(es) : es \in SeqsUpTo(GroupElems, MaxGroupElems)}

\* documents for the layouts: chains of parent links in any order, with a
\* source event and a violation
LayoutElems ==
    {Elem("propagation-event", 0, <<5>>, "P2O", ps) : ps \in {<<>>, <<<<7>>>>}}
    \cup {Elem("propagation-event", 0, <<6>>, "P2O", ps) : ps \in {<<<<5>>>>, <<<<7>>>>}}
    \cup {Elem("propagation-event", 0, <<7>>, "P2O", ps) : ps \in {<<>>, <<<<5>>>>}}
    \cup {Elem("propagation-event", 0, <<6>>, "Creation", <<>>),
          Elem("propagation-event", 0, NoAttr, "Trigger", <<>>)}

LayoutDocs == {Doc(es) : es \in SeqsUpTo(LayoutElems, MaxLayoutElems)}

\* documents for the structural checks: not well-formed, or without the
\* finding, the request or the events element, next to complete ones
StructureElems ==
    {Elem("propagation-event", 0, <<5>>, "Creation", <<>>),
     Elem("propagation-event", 0, <<6>>, "P2O", <<<<5>>>>),
     Elem("propagation-event", 0, NoAttr, "Trigger", <<>>)}

StructureDocs ==
    {[Doc(<<>>) EXCEPT !.parsererror = TRUE, !.finding = FALSE, !.request = FALSE,
                       !.events = FALSE],
     [Doc(<<>>) EXCEPT !.finding = FALSE, !.request = FALSE, !.events = FALSE],
     [Doc(<<>>) EXCEPT !.request = FALSE, !.events = FALSE],
     [Doc(<<>>) EXCEPT !.events = FALSE]}
    \cup {[Doc(es) EXCEPT !.request = r] :
             es \in SeqsUpTo(StructureElems, MaxStructureElems), r \in BOOLEAN}

\* documents of the two-event scenario: Creation events without parents and
\* Trigger events with and without parentObjectIds
ScenarioElems ==
    {Elem("propagation-event", 0, id, "Creation", <<>>) : id \in {NoAttr, <<5>>}}
    \cup {Elem("propagation-event", 0, id, "Trigger", ps) :
             id \in {NoAttr, <<5>>, <<951>>}, ps \in {<<>>, <<<<9>>>>, <<<<853>>>>}}

ScenarioDocs == {Doc(es) : es \in SeqsUpTo(ScenarioElems, MaxScenarioElems)}

\* documents for the dedup pass: an id, the id its second occurrence is
\* renamed to, and events without an objectId, each of them repeated
DedupElems ==
    {Elem("propagation-event", 0, id, "P2O", <<>>) : id \in {NoAttr, <<42>>, <<42, 1>>}}

DedupDocs == {Doc(es) : es \in SeqsUpTo(DedupElems, MaxDedupElems)}

\* documents for the content fields: texts over "Q" (a Base64 character)
\* and "<" (none), as the text of an object, a return or an arg element
PayloadTexts == SeqsUpTo({81, 60}, MaxPayloadLen)

ContentElems ==
    LET e == Elem("propagation-event", 0, NoAttr, "P2O", <<>>)
    IN {[e EXCEPT !.object = Content(t)] : t \in PayloadTexts}
       \cup {[e EXCEPT !.return = Content(t)] : t \in PayloadTexts}
       \cup {[e EXCEPT !.args = <<Arg(TRUE, t)>>] : t \in PayloadTexts}
       \cup {[e EXCEPT !.args = <<Arg(FALSE, <<60>>)>>]}

ContentDocs == {Doc(es) : es \in SeqsUpTo(ContentElems, MaxContentElems)}

\* documents for the builder's annotation: source, propagation and trigger
\* events without content, with a tracked arg, with source P0 and an
\* untracked arg, with an object text and with a return text
AnnotateElems ==
    {[Elem("propagation-event", 0, NoAttr, type, <<>>) EXCEPT
          !.source = c.source, !.object = c.object, !.return = c.return, !.args = c.args] :
        type \in {"Creation", "P2O", "Trigger"},
        c \in {[source |-> NoSource, object |-> NoElement, return |-> NoElement, args |-> <<>>],
               [source |-> NoSource, object |-> NoElement, return |-> NoElement,
                args |-> <<Arg(TRUE, <<81, 81>>)>>],
               [source |-> "P0", object |-> NoElement, return |-> NoElement,
                args |-> <<Arg(FALSE, <<81, 81>>)>>],
               [source |-> NoSource, object |-> Content(<<81, 60>>), return |-> NoElement,
                args |-> <<>>],
               [source |-> NoSource, object |-> NoElement, return |-> Content(<<81, 81>>),
                args |-> <<>>]}}

AnnotateDocs == {Doc(es) : es \in SeqsUpTo(AnnotateElems, MaxAnnotateElems)}

\* documents with colliding objectIds, before or after the dedup pass:
\* source, propagation and Trigger events
CollisionElems ==
    {Elem("propagation-event", 0, id, type, <<>>) :
        id \in {<<42>>, <<42, 1>>}, type \in {"Creation", "P2O", "Trigger"}}

CollisionDocs == {Doc(es) : es \in SeqsUpTo(CollisionElems, MaxCollisionElems)}

\* documents for the events without parents: source events and other events
\* with real objectIds, in any order
OrphanElems ==
    {Elem("propagation-event", 0, id, type, <<>>) :
        id \in {<<5>>, <<7>>}, type \in {"P2O", "Creation"}}

OrphanDocs == {Doc(es) : es \in SeqsUpTo(OrphanElems, MaxOrphanElems)}

\* documents for the parent links: parents that are events, "route",
\* "request" or no node, a base id with a source event and a second event,
\* and an event whose objectId attribute is "7-group"
ParentElems ==
    {Elem("propagation-event", 0, <<7>>, "Creation", <<>>),
     Elem("propagation-event", 0, <<7>>, "P2O", <<>>),
     Elem("propagation-event", 0, <<7, GROUP>>, "P2O", <<<<7>>>>),
     Elem("propagation-event", 0, <<5>>, "P2O", <<<<7>>, <<9>>>>),
     Elem("propagation-event", 0, <<5>>, "P2O", <<RouteId, RequestId>>)}

ParentDocs == {Doc(es) : es \in SeqsUpTo(ParentElems, MaxParentElems)}

\* documents of the files selected: one event "5", a source event in the
\* first and a propagation event before a Trigger in the second
SelectionDocs ==
    {Doc(<<Elem("propagation-event", 0, <<5>>, "Creation", <<>>)>>),
     Doc(<<Elem("propagation-event", 0, <<5>>, "P2O", <<>>),
           Elem("propagation-event", 0, NoAttr, "Trigger", <<>>)>>)}

\* no file has been selected: no document has been handed to the parser
NoDocument == Doc(<<>>)

Init == InitWith(ParseDocs)
InitInteract == InitWith({NoDocument})
InitParent == InitWith(ParentDocs)
InitOrphan == InitWith(OrphanDocs)
InitCollision == InitWith(CollisionDocs)
InitAnnotate == InitWith(AnnotateDocs)
InitContent == InitWith(ContentDocs)
InitDedup == InitWith(DedupDocs)
InitScenario == InitWith(ScenarioDocs)
InitStructure == InitWith(StructureDocs)
InitBuild == InitWith(BuildDocs)
InitGroup == InitWith(GroupDocs)
InitLayout == InitWith(LayoutDocs)

Spec == Init /\ [][Next]_vars
SpecBuild == InitBuild /\ [][Next]_vars
SpecGroup == InitGroup /\ [][Next]_vars
SpecLayout == InitLayout /\ [][Next]_vars
SpecStructure == InitStructure /\ [][Next]_vars
SpecScenario == InitScenario /\ [][Next]_vars
SpecDedup == InitDedup /\ [][Next]_vars
SpecContent == InitContent /\ [][Next]_vars
SpecAnnotate == InitAnnotate /\ [][Next]_vars
SpecCollision == InitCollision /\ [][Next]_vars
SpecOrphan == InitOrphan /\ [][Next]_vars
SpecParent == InitParent /\ [][Next]_vars

\* files are selected, read and rendered in any interleaving while the user
\* toggles the layout and drags a node
NextInteract ==
    \/ \E doc \in SelectionDocs : HandleFileSelection(doc)
    \/ \E n \in reading : ProcessXmlContent(n)
    \/ RenderTimeout
    \/ ToggleLayout
    \/ \E i \in 1..Len(data.nodes) : DragStarted(i)
    \/ Dragged
    \/ DragEnded

SpecInteract == InitInteract /\ [][NextInteract]_vars

----------------------------------------------------------------------------
(* Properties *)

RECURSIVE ReachFrom(_, _)
\* the ids reachable from the set S along the edges
ReachFrom(edges, S) ==
    LET T == S \cup {edges[i].target : i \in {j \in 1..Len(edges) : edges[j].source \in S}}
    IN IF T = S THEN S ELSE ReachFrom(edges, T)

HasCycle(edges) ==
    \E i \in 1..Len(edges) : edges[i].source \in ReachFrom(edges, {edges[i].target})

NoRepeatedPair(edges) ==
    \A i \in 1..Len(edges) : \A j \in 1..Len(edges) : i # j => edges[i] # edges[j]

LastLayout == layouts[Len(layouts)]

\* the collapsed (non-source) members of base-id group base, before grouping
MembersOf(base) == Ids(GroupOthers(traceData.nodes, base))

CollapsedIds ==
    UNION {MembersOf(CollapsedBases(traceData.nodes)[b]) :
              b \in 1..Len(CollapsedBases(traceData.nodes))}

\* a collapsed member stands for its group node, any other id for itself
AfterGrouping(id) ==
    IF id \in CollapsedIds /\ IsNumericId(id) THEN GroupIdOf(id[1]) ELSE id

\* C1: after the dedup pass of extractEvents no two events of the returned
\* event list have the same objectId.
C1_UniqueObjectIds ==
    traceData.loaded =>
        \A i \in 1..Len(traceData.events) : \A j \in 1..Len(traceData.events) :
            i # j => traceData.events[i].objectId # traceData.events[j].objectId

\* C2: the edge list returned by buildEdges contains no directed cycle.
C2_EdgesAcyclic == traceData.loaded => ~HasCycle(traceData.edges)

\* C3: after buildNodes and buildEdges every node other than "request" is the
\* target of at least one edge.
C3_EveryNodeHasIncomingEdge ==
    traceData.loaded =>
        \A i \in 1..Len(traceData.nodes) :
            traceData.nodes[i].id # RequestId =>
                \E k \in 1..Len(traceData.edges) :
                    traceData.edges[k].target = traceData.nodes[i].id

\* C4: the edge list returned by buildEdges, before the grouping pass,
\* contains no (source, target) pair more than once.
C4_BuildEdgesNoRepeatedPair == traceData.loaded => NoRepeatedPair(traceData.edges)

\* C5: after groupSimilarNodes no id of a collapsed member is the id of a node
\* of the node list, nor the source or the target of an edge of the edge list.
C5_CollapsedIdsAbsent ==
    data.present =>
        \A id \in CollapsedIds :
            /\ id \notin Ids(data.nodes)
            /\ \A k \in 1..Len(data.edges) :
                  data.edges[k].source # id /\ data.edges[k].target # id

\* C6: after groupSimilarNodes the predecessors of every group node are the
\* predecessors its collapsed members had outside the collapsed members (a
\* collapsed node standing for its group node) together with the sources of
\* the group, and its successors are the members' successors outside the
\* collapsed members, mapped the same way.
C6_GroupingConservation ==
    data.present =>
        \A b \in 1..Len(CollapsedBases(traceData.nodes)) :
            LET base == CollapsedBases(traceData.nodes)[b]
                members == MembersOf(base)
                before == traceData.edges
                after == data.edges
            IN /\ {after[k].source : k \in {m \in 1..Len(after) :
                                              after[m].target = GroupIdOf(base)}}
                  = {AfterGrouping(before[k].source) :
                        k \in {m \in 1..Len(before) :
                                  before[m].target \in members /\ before[m].source \notin members}}
                    \cup Ids(GroupSources(traceData.nodes, base))
               /\ {after[k].target : k \in {m \in 1..Len(after) :
                                              after[m].source = GroupIdOf(base)}}
                  = {AfterGrouping(before[k].target) :
                        k \in {m \in 1..Len(before) :
                                  before[m].source \in members /\ before[m].target \notin members}}

\* C7: after createDagLayout has finished on an acyclic graph, every edge
\* (p -> c) whose two ends are nodes has y(c) >= y(p).
C7_DagLayoutMonotone ==
    (data.present /\ LastLayout.kind = "dag" /\ ~LastLayout.threw /\ ~HasCycle(data.edges)) =>
        \A k \in 1..Len(data.edges) :
            (FindNode(data.nodes, data.edges[k].source) # 0
             /\ FindNode(data.nodes, data.edges[k].target) # 0) =>
                data.nodes[FindNode(data.nodes, data.edges[k].target)].y
                    >= data.nodes[FindNode(data.nodes, data.edges[k].source)].y

C9_DagLayoutRepeatable ==
    \A r \in 1..(Len(layouts) - 1) :
        (layouts[r].kind = "dag" /\ layouts[r + 1].kind = "dag"
         /\ ~layouts[r].threw /\ ~layouts[r + 1].threw) =>
            /\ Len(layouts[r + 1].nodes) = Len(layouts[r].nodes)
            /\ \A i \in 1..Len(layouts[r].nodes) :
                  /\ layouts[r + 1].nodes[i].id = layouts[r].nodes[i].id
                  /\ layouts[r + 1].nodes[i].x = layouts[r].nodes[i].x
                  /\ layouts[r + 1].nodes[i].y = layouts[r].nodes[i].y

\* createDagLayout has run twice in a row on a graph with a data flow node
\* and a violation node
C9_Witness ==
    /\ Len(layouts) >= 2
    /\ layouts[1].kind = "dag" /\ layouts[2].kind = "dag"
    /\ ~layouts[1].threw /\ ~layouts[2].threw
    /\ \E i \in 1..Len(layouts[2].nodes) : layouts[2].nodes[i].category = 3
    /\ \E i \in 1..Len(layouts[2].nodes) : layouts[2].nodes[i].category = 4

Malformed(doc) == doc.parsererror \/ ~doc.finding \/ ~doc.request \/ ~doc.events

\* C11: when the document is not well-formed, or has no finding, no request
\* or no events element, parseXmlContent ends with an error thrown to its
\* caller and returns no graph at all.
C11_MalformedTraceSurfaced ==
    (Malformed(xmlDoc) /\ (traceData.loaded \/ traceData.threw)) =>
        (traceData.threw /\ ~traceData.loaded /\ traceData.nodes = <<>>)

\* the events are exactly one Creation event without parents followed by one
\* Trigger event
CreationThenTrigger(events) ==
    /\ Len(events) = 2
    /\ events[1].type = "Creation" /\ events[1].parentObjectIds = <<>>
    /\ events[2].type = "Trigger"

\* C12: for a trace whose events are exactly one Creation event without
\* parents followed by one Trigger event, whatever the Trigger's
\* parentObjectIds, the built graph has exactly the nodes request, route,
\* source event, trigger event in that order and exactly the edges
\* request -> route, route -> source event, source event -> trigger event.
C12_CreationTriggerScenario ==
    (traceData.loaded /\ CreationThenTrigger(traceData.events)) =>
        LET src == traceData.events[1].objectId
            trg == traceData.events[2].objectId
        IN /\ [i \in 1..Len(traceData.nodes) |-> traceData.nodes[i].id]
                 = <<RequestId, RouteId, src, trg>>
           /\ Len(traceData.edges) = 3
           /\ Range(traceData.edges)
                 = {Edge(RequestId, RouteId), Edge(RouteId, src), Edge(src, trg)}

\* the objectId of the i-th event in parsed order, before the dedup pass
OriginalId(i) == AttrOrSynth(CollectEvents(xmlDoc.elems)[i].objectId, i)

\* how many of the first i events in parsed order have the objectId of the i-th
OccurrenceIndex(i) == Cardinality({j \in 1..i : OriginalId(j) = OriginalId(i)})

\* C13: the dedup pass leaves the first occurrence of every objectId
\* unchanged and renames its k-th occurrence in parsed order (k >= 2) to
\* "<id>-<k-1>"; an event whose objectId occurs once keeps it.
C13_DedupRenamesLaterOccurrences ==
    traceData.loaded =>
        \A i \in 1..Len(traceData.events) :
            traceData.events[i].objectId
                = IF OccurrenceIndex(i) = 1 THEN OriginalId(i)
                  ELSE Append(OriginalId(i), OccurrenceIndex(i) - 1)

\* the event elements of the document in parsed order
ParsedElems == CollectEvents(xmlDoc.elems)

\* the document with every object, return and arg text replaced by "QQ==",
\* which decodes
WithDecodablePayloads(elems) ==
    [i \in 1..Len(elems) |->
        [elems[i] EXCEPT
            !.object = IF @.present THEN Content(<<81, 81, 61, 61>>) ELSE @,
            !.return = IF @.present THEN Content(<<81, 81, 61, 61>>) ELSE @,
            !.args = [j \in 1..Len(@) |-> Arg(@[j].tracked, <<81, 81, 61, 61>>)]]]

\* the fields of an event that are no content fields
OtherFields(e) ==
    [objectId |-> e.objectId, time |-> e.time, type |-> e.type,
     isTriggerEvent |-> e.isTriggerEvent, isSourceEvent |-> e.isSourceEvent,
     parentObjectIds |-> e.parentObjectIds,
     hasObjectData |-> e.objectData.present, hasReturnData |-> e.returnData.present,
     argCount |-> Len(e.args)]

\* C14: when the text of an object element, a return element or a tracked
\* arg element cannot be decoded, the decoded value is that text verbatim,
\* and the event list is the one the document would give if every payload
\* decoded, content fields apart.
C14_UndecodablePayloadKeptVerbatim ==
    traceData.loaded =>
        /\ \A i \in 1..Len(traceData.events) :
              /\ (ParsedElems[i].object.present /\ Len(ParsedElems[i].object.text) > 0
                  /\ AtobThrows(ParsedElems[i].object.text)) =>
                     traceData.events[i].objectData.decoded = ParsedElems[i].object.text
              /\ (ParsedElems[i].return.present /\ Len(ParsedElems[i].return.text) > 0
                  /\ AtobThrows(ParsedElems[i].return.text)) =>
                     traceData.events[i].returnData.decoded = ParsedElems[i].return.text
              /\ \A j \in 1..Len(ParsedElems[i].args) :
                    (ParsedElems[i].args[j].tracked /\ AtobThrows(ParsedElems[i].args[j].text)) =>
                        traceData.events[i].args[j].decodedValue = ParsedElems[i].args[j].text
        /\ [i \in 1..Len(traceData.events) |-> OtherFields(traceData.events[i])]
              = [i \in 1..Len(ParsedElems) |->
                    OtherFields(ExtractEvents(WithDecodablePayloads(xmlDoc.elems))[i])]

\* C15: createDagLayout never raises an error and leaves every node of the
\* graph with an x and a y, also the isolated nodes and the nodes that none
\* of the connection patterns covers.
C15_DagLayoutPositionsEveryNode ==
    \A r \in 1..Len(layouts) :
        layouts[r].kind = "dag" =>
            /\ ~layouts[r].threw
            /\ \A i \in 1..Len(layouts[r].nodes) : layouts[r].nodes[i].positioned

\* createDagLayout has run on a graph with a data flow node that no edge
\* touches and with a violation node
C15_Witness ==
    /\ data.present
    /\ LastLayout.kind = "dag"
    /\ \E i \in 1..Len(data.nodes) :
          /\ data.nodes[i].category = 3
          /\ InCount(data.edges, data.nodes[i].id) = 0
          /\ OutCount(data.edges, data.nodes[i].id) = 0
    /\ \E i \in 1..Len(data.nodes) : data.nodes[i].category = 4

\* the edges whose two ends are nodes
LinksBetweenNodes(nodes, edges) ==
    SeqFilterIdx(edges, {k \in 1..Len(edges) :
        edges[k].source \in Ids(nodes) /\ edges[k].target \in Ids(nodes)}, 1)

\* the last run entered createSankeyLayout and the Flow layout could not be
\* computed: no plug-in, or a cycle among the links
FlowLayoutUnavailable ==
    /\ data.present
    /\ LastLayout.viaSankey
    /\ (~sankeyAvailable \/ HasCycle(LinksBetweenNodes(data.nodes, data.edges)))

\* C16: when the Flow layout cannot be computed, createSankeyLayout raises
\* no error and every node ends with the x and y the hierarchical layout
\* assigns to it.
C16_FlowLayoutFallsBack ==
    FlowLayoutUnavailable =>
        /\ LastLayout.kind = "dag"
        /\ ~LastLayout.threw
        /\ \A i \in 1..Len(data.nodes) :
              /\ data.nodes[i].positioned
              /\ data.nodes[i].x
                    = CreateDagLayout(data.nodes, data.edges, viewport.width,
                                      viewport.height).nodes[i].x
              /\ data.nodes[i].y
                    = CreateDagLayout(data.nodes, data.edges, viewport.width,
                                      viewport.height).nodes[i].y

\* the Flow layout was asked for with the plug-in loaded on a graph with a
\* cycle among its links
C16_Witness ==
    /\ FlowLayoutUnavailable
    /\ sankeyAvailable
    /\ Len(data.nodes) > 3

\* C18: createSankeyLayout leaves the renderer's mode flag useSankeyLayout
\* as it found it (set), whether the Flow layout succeeds or falls back.
C18_FlowLayoutKeepsModeFlag ==
    (data.present /\ LastLayout.viaSankey) => useSankeyLayout

\* the identity and the grouping of the nodes, without what a layout assigns
GroupedAs(nodes) ==
    [i \in 1..Len(nodes) |->
        [id |-> nodes[i].id, isCollapsedGroup |-> nodes[i].isCollapsedGroup,
         members |-> nodes[i].members]]

\* C17: a toggle of the layout mode while a graph is loaded runs the layout
\* once more and nothing else: the parsed trace data, the grouping of the
\* nodes, the set of node ids and the set of (source, target) edges are the
\* same after the toggle as before it.
C17_ToggleRerunsOnlyLayout ==
    [][(data.present /\ usingSankeyLayout' # usingSankeyLayout) =>
          /\ traceData' = traceData
          /\ xmlDoc' = xmlDoc
          /\ Len(layouts') = Len(layouts) + 1
          /\ GroupedAs(data'.nodes) = GroupedAs(data.nodes)
          /\ Ids(data'.nodes) = Ids(data.nodes)
          /\ Range(data'.edges) = Range(data.edges)]_vars

\* the layout mode has been toggled on a rendered graph with a collapsed
\* group, and the layout has run again
C17_Witness ==
    /\ data.present
    /\ usingSankeyLayout
    /\ Len(layouts) = 2
    /\ \E i \in 1..Len(data.nodes) : data.nodes[i].isCollapsedGroup

\* C19: building the nodes and the edges leaves every field of every event
\* as the parser produced it, except parameterTaintRanges, and that field
\* changes on Trigger events only.
C19_BuilderOnlyAnnotatesTriggers ==
    (traceData.loaded /\ ~Malformed(xmlDoc)) =>
        /\ Len(traceData.events) = Len(ExtractEvents(xmlDoc.elems))
        /\ \A i \in 1..Len(traceData.events) :
              /\ [traceData.events[i] EXCEPT
                      !.parameterTaintRanges = ExtractEvents(xmlDoc.elems)[i].parameterTaintRanges]
                    = ExtractEvents(xmlDoc.elems)[i]
              /\ traceData.events[i].parameterTaintRanges
                    # ExtractEvents(xmlDoc.elems)[i].parameterTaintRanges
                 => (traceData.events[i].isTriggerEvent \/ traceData.events[i].type = "Trigger")

\* a built trace with a Trigger event that got its parameterTaintRanges and
\* an event of another kind that has a tracked arg
C19_Witness ==
    /\ traceData.loaded
    /\ \E i \in 1..Len(traceData.events) :
          /\ traceData.events[i].type = "Trigger"
          /\ traceData.events[i].parameterTaintRanges # NoRanges
    /\ \E i \in 1..Len(traceData.events) :
          /\ traceData.events[i].type # "Trigger"
          /\ Len(traceData.events[i].args) > 0
          /\ traceData.events[i].args[1].tracked

\* the event elements of the document, in document order
DocumentOrderEvents(elems) ==
    SeqFilterIdx(elems, {i \in 1..Len(elems) : elems[i].tag \in EventTags}, 1)

\* C20: the parsed event list is the stable sort by time of the event
\* elements in document order: times do not decrease, and events of equal
\* time keep the order they have in the document, also when the three kinds
\* of event element are interleaved.
C20_StableSortOfDocumentOrder ==
    (traceData.loaded /\ ~Malformed(xmlDoc)) =>
        /\ \A i \in 1..(Len(traceData.events) - 1) :
              traceData.events[i].time <= traceData.events[i + 1].time
        /\ traceData.events
              = AnnotatedEvents(EventsOf(SortByTime(DocumentOrderEvents(xmlDoc.elems))))

\* the id of the event before position i of the event list, "route" for the
\* first event
PreviousInList(events, i) == IF i = 1 THEN RouteId ELSE events[i - 1].objectId

\* C21: for every Trigger event, whatever its parentObjectIds, every edge of
\* buildEdges whose target is that event has as source the event immediately
\* preceding it in the event list ("route" for the first event), and there
\* is at least one such edge.
C21_TriggerLinkedFromPreceding ==
    (traceData.loaded /\ ~Malformed(xmlDoc)) =>
        \A i \in 1..Len(traceData.events) :
            traceData.events[i].type = "Trigger" =>
                /\ \E k \in 1..Len(traceData.edges) :
                      traceData.edges[k].target = traceData.events[i].objectId
                /\ \A k \in 1..Len(traceData.edges) :
                      traceData.edges[k].target = traceData.events[i].objectId =>
                          traceData.edges[k].source = PreviousInList(traceData.events, i)

\* the positions before i of the event list that hold a Source event
SourcesBefore(events, i) == {j \in 1..(i - 1) : events[j].isSourceEvent}

\* C22: an event that is no Trigger and no Source, has no parentObjectIds and
\* has a real objectId is linked by buildEdges from the nearest Source event
\* before it in the event list when there is one, and from the event
\* immediately before it otherwise, also when Source events follow it.
C22_ParentlessLinkedFromSourceOrPrevious ==
    (traceData.loaded /\ ~Malformed(xmlDoc)) =>
        \A i \in 1..Len(traceData.events) :
            (/\ traceData.events[i].type # "Trigger"
             /\ ~traceData.events[i].isSourceEvent
             /\ traceData.events[i].parentObjectIds = <<>>
             /\ traceData.events[i].objectId[1] # EVENT) =>
                Edge(IF SourcesBefore(traceData.events, i) # {}
                     THEN traceData.events[MaxOf(SourcesBefore(traceData.events, i))].objectId
                     ELSE PreviousInList(traceData.events, i),
                     traceData.events[i].objectId) \in Range(traceData.edges)

\* the parent id names a node: "request", "route" or an event
NamesNode(events, p) == p = RequestId \/ p = RouteId \/ InEventMap(events, p)

\* C23: for every event that is no Trigger and has parentObjectIds,
\* buildEdges produces the edge p -> e for each listed parent p that is
\* "request", "route" or the objectId of an event, and no edge with source p
\* for a listed parent that names no node; no error is raised and every
\* event still gets its node.
C23_ParentLinksResolvedOrDropped ==
    (traceData.loaded /\ ~Malformed(xmlDoc)) =>
        /\ ~traceData.threw
        /\ Len(traceData.nodes) = Len(traceData.events) + 2
        /\ \A i \in 1..Len(traceData.events) :
              traceData.events[i].type # "Trigger" =>
                  \A j \in 1..Len(traceData.events[i].parentObjectIds) :
                      IF NamesNode(traceData.events, traceData.events[i].parentObjectIds[j])
                      THEN Edge(traceData.events[i].parentObjectIds[j],
                                traceData.events[i].objectId) \in Range(traceData.edges)
                      ELSE \A k \in 1..Len(traceData.edges) :
                              traceData.edges[k].source # traceData.events[i].parentObjectIds[j]

\* C24: the source and the target of every edge returned by buildEdges are
\* ids of nodes returned by buildNodes for the same events, also for events
\* whose id contains "951" and that list a parent whose id contains "853".
C24_EdgeEndsAreNodes ==
    traceData.loaded =>
        \A k \in 1..Len(traceData.edges) :
            /\ traceData.edges[k].source \in Ids(traceData.nodes)
            /\ traceData.edges[k].target \in Ids(traceData.nodes)

\* the node the parser built for the j-th member of a collapsed group
MemberNode(group, j) == traceData.nodes[FindNode(traceData.nodes, group.members[j])]

\* C25: after render has grouped the nodes and assigned the categories,
\* every collapsed group node has the category of its first member, and its
\* isTriggerEvent says whether some member is a Trigger; a group whose first
\* member is a data flow event has category 3 also when a later member is a
\* Trigger.
C25_GroupCategoryOfFirstMember ==
    data.present =>
        \A i \in 1..Len(data.nodes) :
            data.nodes[i].isCollapsedGroup =>
                /\ data.nodes[i].category = CategoryOf(MemberNode(data.nodes[i], 1))
                /\ data.nodes[i].isTriggerEvent
                      = (\E j \in 1..Len(data.nodes[i].members) :
                            MemberNode(data.nodes[i], j).isTriggerEvent)

\* what a node is, without what the renderer assigns to it
IdentityOf(n) ==
    [id |-> n.id, type |-> n.type, isSourceEvent |-> n.isSourceEvent,
     isTriggerEvent |-> n.isTriggerEvent, isCollapsedGroup |-> n.isCollapsedGroup]

\* the node n of the parsed graph is a node of the rendered graph
Remains(n) == \E i \in 1..Len(data.nodes) : IdentityOf(data.nodes[i]) = IdentityOf(n)

\* the base ids of the parsed graph and of the group nodes of the rendered
\* graph
BasesSeen ==
    Range(BaseIds(traceData.nodes))
    \cup {data.nodes[i].id[1] : i \in {j \in 1..Len(data.nodes) :
              Len(data.nodes[j].id) = 2 /\ data.nodes[j].id[2] = GROUP}}

\* C26: after the grouping pass the node "<b>-group" exists exactly when
\* base id b had more than one non-source member; its members are then those
\* non-source nodes, none of them remains in the node list and every source
\* node of b remains; when b has at most one non-source member every node of
\* b remains as it was.
C26_GroupIffSeveralOthers ==
    data.present =>
        \A b \in BasesSeen :
            /\ (GroupIdOf(b) \in Ids(data.nodes)) = (Len(GroupOthers(traceData.nodes, b)) > 1)
            /\ \A k \in 1..Len(GroupSources(traceData.nodes, b)) :
                  Remains(GroupSources(traceData.nodes, b)[k])
            /\ IF Len(GroupOthers(traceData.nodes, b)) > 1
               THEN /\ \A i \in 1..Len(data.nodes) :
                          data.nodes[i].id = GroupIdOf(b) =>
                              /\ data.nodes[i].isCollapsedGroup
                              /\ data.nodes[i].members
                                    = [k \in 1..Len(GroupOthers(traceData.nodes, b)) |->
                                          GroupOthers(traceData.nodes, b)[k].id]
                    /\ \A k \in 1..Len(GroupOthers(traceData.nodes, b)) :
                          ~Remains(GroupOthers(traceData.nodes, b)[k])
               ELSE \A k \in 1..Len(GroupOthers(traceData.nodes, b)) :
                       Remains(GroupOthers(traceData.nodes, b)[k])

\* C27: when the hierarchical layout has finished, its corrective pass
\* included, every violation node (category 4) has a y strictly greater than
\* the y of every data flow node (category 3), also when a data flow node has
\* a violation node as parent.
C27_ViolationsBelowDataFlow ==
    (data.present /\ LastLayout.kind = "dag" /\ ~LastLayout.threw) =>
        \A i \in 1..Len(data.nodes) : \A j \in 1..Len(data.nodes) :
            (data.nodes[i].category = 4 /\ data.nodes[j].category = 3) =>
                data.nodes[i].y > data.nodes[j].y

\* C28: between two handlers the layout mode of the renderer
\* (useSankeyLayout) is the mode chosen with the toggle button
\* (usingSankeyLayout), after any sequence of toggle clicks, trace loads and
\* fallbacks of the Flow layout; a toggle made before a trace is loaded
\* takes effect when the trace is rendered.
C28_RendererModeFollowsToggle == useSankeyLayout = usingSankeyLayout

\* every read has completed and every delayed render has run
AllLoadsDone == reading = {} /\ timers = <<>>

\* the graph render makes of a document: the grouped nodes and edges
GraphOf(doc) == GroupSimilarNodes(ExtractTraceData(doc).nodes, ExtractTraceData(doc).edges)

\* C29: when two trace files are selected one after the other, then once
\* every file has been read and every delayed render has run, the graph the
\* renderer holds is that of the file selected last, whatever the order in
\* which the reads complete.
C29_LastSelectedFileIsDrawn ==
    (Len(selected) >= 2 /\ AllLoadsDone) =>
        /\ data.present
        /\ GroupedAs(data.nodes) = GroupedAs(GraphOf(selected[Len(selected)]).nodes)
        /\ data.edges = GraphOf(selected[Len(selected)]).edges

\* C30: after a drag gesture has ended every node of the graph the renderer
\* holds has the x and y the most recent layout run gave it, also when the
\* graph was rendered or laid out again between dragstarted and dragended.
C30_DragEndRestoresLayout ==
    (data.present /\ drag.phase = "ended") =>
        \A i \in 1..Len(data.nodes) :
            /\ data.nodes[i].x = LastLayout.nodes[i].x
            /\ data.nodes[i].y = LastLayout.nodes[i].y

====
